---- MODULE Spec2Model ----
(***************************************************************************)
(* Model of ffextract-subtitles.py: probing of movie files with ffprobe,   *)
(* the per-stream filter and the naming policy of                          *)
(* ExtractSubtitles.get_ffmpeg_track_id, the extraction with ffmpeg and the *)
(* walk over the candidate files, for up to MaxRuns successive runs of the *)
(* tool over the same files with the same options.                         *)
(*                                                                         *)
(* Text is modelled by TLA+ strings, on which Len, SubSeq and \o act       *)
(* character by character.                                                 *)
(***************************************************************************)
EXTENDS Integers, Sequences, FiniteSets, TLC

\* Longest "streams" array a probe reports in the model.
MaxStreams == 2
\* Number of successive runs of the tool.
MaxRuns == 2

(***************************************************************************)
(* Python string and path functions used by the program.                   *)
(***************************************************************************)
LowerChar(c) ==
    CASE c = "A" -> "a" [] c = "B" -> "b" [] c = "C" -> "c" [] c = "D" -> "d"
      [] c = "E" -> "e" [] c = "F" -> "f" [] c = "G" -> "g" [] c = "H" -> "h"
      [] c = "I" -> "i" [] c = "J" -> "j" [] c = "K" -> "k" [] c = "L" -> "l"
      [] c = "M" -> "m" [] c = "N" -> "n" [] c = "O" -> "o" [] c = "P" -> "p"
      [] c = "Q" -> "q" [] c = "R" -> "r" [] c = "S" -> "s" [] c = "T" -> "t"
      [] c = "U" -> "u" [] c = "V" -> "v" [] c = "W" -> "w" [] c = "X" -> "x"
      [] c = "Y" -> "y" [] c = "Z" -> "z" [] OTHER -> c

\* str.lower()
RECURSIVE lower(_)
lower(s) ==
    IF s = "" THEN ""
    ELSE LowerChar(SubSeq(s, 1, 1)) \o lower(SubSeq(s, 2, Len(s)))

\* sub in s  (substring test)
contains(s, sub) ==
    \E i \in 1..(Len(s) - Len(sub) + 1) : SubSeq(s, i, i + Len(sub) - 1) = sub

\* s.rfind(c) for a single character, 1-based, 0 when c does not occur
rfind(s, c) ==
    LET I == {i \in 1..Len(s) : SubSeq(s, i, i) = c}
    IN  IF I = {} THEN 0 ELSE CHOOSE i \in I : \A j \in I : j <= i

\* s.split(sep) for a single-character separator
RECURSIVE str_split(_, _)
str_split(s, sep) ==
    LET I == {i \in 1..Len(s) : SubSeq(s, i, i) = sep}
    IN  IF I = {} THEN <<s>>
        ELSE LET i == CHOOSE m \in I : \A j \in I : m <= j
             IN  <<SubSeq(s, 1, i - 1)>> \o str_split(SubSeq(s, i + 1, Len(s)), sep)

\* x in list
in_list(x, list) == \E i \in 1..Len(list) : list[i] = x

\* os.path.splitext: the extension starts at the last dot of the last path
\* component, unless that component has only leading dots before it
splitext(p) ==
    LET sepIndex == rfind(p, "/")
        dotIndex == rfind(p, ".")
    IN  IF /\ dotIndex > sepIndex
           /\ \E j \in (sepIndex + 1)..(dotIndex - 1) : SubSeq(p, j, j) # "."
        THEN <<SubSeq(p, 1, dotIndex - 1), SubSeq(p, dotIndex, Len(p))>>
        ELSE <<p, "">>

\* s.rstrip('/')
RECURSIVE rstrip_sep(_)
rstrip_sep(s) ==
    IF s # "" /\ SubSeq(s, Len(s), Len(s)) = "/"
    THEN rstrip_sep(SubSeq(s, 1, Len(s) - 1))
    ELSE s

\* os.path.split
path_split(p) ==
    LET i == rfind(p, "/")
        head == SubSeq(p, 1, i)
        tail == SubSeq(p, i + 1, Len(p))
    IN  IF rstrip_sep(head) # "" THEN <<rstrip_sep(head), tail>> ELSE <<head, tail>>

\* os.path.join of two components, the second one relative
path_join(a, b) ==
    IF a = "" THEN b
    ELSE IF SubSeq(a, Len(a), Len(a)) = "/" THEN a \o b
    ELSE a \o "/" \o b

\* dict.get(key, default)
EmptyDict == [key \in {} |-> ""]
Get(d, key, default) == IF key \in DOMAIN d THEN d[key] ELSE default

(***************************************************************************)
(* Program constants.                                                      *)
(***************************************************************************)
supported_extensions == <<".mkv", ".mp4", ".mov", ".avi", ".mpg", ".mpeg">>
unsupported_codec == <<"hdmv_pgs_subtitle", "dvd_subtitle">>
\* return code ffprobe() reports when the probe process fails
ProbeErrorCode == 1212
\* return code ffsubextract() reports when the output cannot be decoded
ExtractDecodeErrorCode == 0 - 1
\* errno values of IOError the main guard swallows
SwallowedErrnos == {22, 32}

(***************************************************************************)
(* Probe data: the stream objects ffprobe reports.  A stream is a JSON     *)
(* object; keys may be absent.  "index" is the container-wide index, the   *)
(* position of the stream in the "streams" array.                          *)
(***************************************************************************)
Video == [codec_type |-> "video", codec_name |-> "h264",
          disposition |-> [forced |-> 0]]
SubFra == [codec_type |-> "subtitle", codec_name |-> "subrip",
           disposition |-> [forced |-> 0], tags |-> [language |-> "fra"]]
\* no "disposition" key
SubEng == [codec_type |-> "subtitle", codec_name |-> "subrip",
           tags |-> [language |-> "eng"]]
\* no "codec_name" and no "tags" key
SubForcedNoLang == [codec_type |-> "subtitle", disposition |-> [forced |-> 1]]
SubTitleForced == [codec_type |-> "subtitle", codec_name |-> "ass",
                   disposition |-> [forced |-> 0],
                   tags |-> [language |-> "fra", title |-> "FORCED"]]
SubSdh == [codec_type |-> "subtitle", codec_name |-> "subrip",
           disposition |-> [forced |-> 0],
           tags |-> [language |-> "fra", title |-> "French Sdh"]]
SubPgs == [codec_type |-> "subtitle", codec_name |-> "hdmv_pgs_subtitle",
           disposition |-> [forced |-> 0], tags |-> [language |-> "fra"]]
\* no key but the type
SubBare == [codec_type |-> "subtitle"]
SubDvdAll == [codec_type |-> "subtitle", codec_name |-> "dvd_subtitle",
              disposition |-> [forced |-> 1],
              tags |-> [language |-> "eng", title |-> "SDH Forced"]]

StreamPool == {Video, SubFra, SubEng, SubForcedNoLang, SubTitleForced,
               SubSdh, SubPgs, SubDvdAll}
SmallPool == {Video, SubFra, SubForcedNoLang, SubPgs}

\* the "streams" arrays of at most MaxStreams streams drawn from pool
StreamArrays(pool) ==
    UNION {[1..n -> pool] : n \in 0..MaxStreams}

\* the parsed probe document of a file whose streams are arr
ProbeJson(arr) ==
    [streams |-> [i \in 1..Len(arr) |-> arr[i] @@ [index |-> i - 1]]]

(***************************************************************************)
(* Command line (main, lines 216-226).                                     *)
(***************************************************************************)
LanguageOptions == {"fra", "fre,fra"}
VerboseLevels == {0, 1, 2}
ArgSets(filelist, languages) ==
    [filelist : {filelist}, language : languages, verbose : VerboseLevels,
     get_sdh : BOOLEAN, get_forced : BOOLEAN, scan_only : BOOLEAN]
\* default of --language (line 219)
DefaultLanguage == "fre,fra"

\* candidate files of the run, each glob name naming one regular file
RunFiles == <<"movie.mkv", "tv.s1/notes", "tv.s1/ep.2.mp4">>
OneFile == <<"notes.txt", "movie.mkv">>
\* what the episode of RunFiles holds
EpisodeStreams == <<Video, SubFra, SubBare>>

\* process_movie: the path handed to get_ffmpeg_track_id, "" when the
\* extension is not a supported one
MoviePath(name) ==
    LET parts == path_split(name)
        ext == splitext(parts[2])[2]
    IN  IF in_list(ext, supported_extensions)
        THEN path_join(parts[1], parts[2])
        ELSE ""

Movies(filelist) ==
    {MoviePath(filelist[i]) : i \in 1..Len(filelist)} \ {""}

(***************************************************************************)
(* The stream filter of get_ffmpeg_track_id (lines 100-159).               *)
(***************************************************************************)
codec_name_of(stream) == Get(stream, "codec_name", "unknown")
language_of(stream) == Get(Get(stream, "tags", EmptyDict), "language", "unset")
title_of(stream) == Get(Get(stream, "tags", EmptyDict), "title", "unset")

\* variant: the title is searched as it is written
is_forced_case_sensitive(stream) ==
    LET disposition == Get(stream, "disposition", EmptyDict)
    IN  \/ ("forced" \in DOMAIN disposition /\ disposition["forced"] = 1)
        \/ contains(title_of(stream), "forc")

\* forced == 1 or 'forc' in title.lower(); the default 'unset' is not 1
is_forced_of(stream) ==
    LET disposition == Get(stream, "disposition", EmptyDict)
    IN  \/ ("forced" \in DOMAIN disposition /\ disposition["forced"] = 1)
        \/ contains(lower(title_of(stream)), "forc")

\* keep only subtitle streams
SubtitleStreams(json) ==
    SelectSeq(Get(json, "streams", <<>>),
              LAMBDA stream : Get(stream, "codec_type", "unknown") = "subtitle")

\* variant: the language is not looked at
Examine_no_language(a, stream) ==
    IF a.scan_only THEN "scan_only"
    ELSE IF in_list(codec_name_of(stream), unsupported_codec) THEN "unsupported"
    ELSE IF is_forced_of(stream) /\ ~a.get_forced THEN "forced"
    ELSE IF contains(lower(title_of(stream)), "sdh") /\ ~a.get_sdh THEN "sdh"
    ELSE "extract"

\* variant: --scan-only does not stop the examination
Examine_no_scan_only(a, stream) ==
    IF in_list(codec_name_of(stream), unsupported_codec) THEN "unsupported"
    ELSE IF is_forced_of(stream) /\ ~a.get_forced THEN "forced"
    ELSE IF /\ language_of(stream) # "unset"
            /\ ~in_list(language_of(stream), str_split(a.language, ","))
         THEN "language"
    ELSE IF contains(lower(title_of(stream)), "sdh") /\ ~a.get_sdh THEN "sdh"
    ELSE "extract"

\* variant: the codec is not looked at
Examine_no_codec(a, stream) ==
    IF a.scan_only THEN "scan_only"
    ELSE IF is_forced_of(stream) /\ ~a.get_forced THEN "forced"
    ELSE IF /\ language_of(stream) # "unset"
            /\ ~in_list(language_of(stream), str_split(a.language, ","))
         THEN "language"
    ELSE IF contains(lower(title_of(stream)), "sdh") /\ ~a.get_sdh THEN "sdh"
    ELSE "extract"

\* the fate of one stream: the first exclusion that applies, or "extract"
Examine(a, stream) ==
    IF a.scan_only THEN "scan_only"
    ELSE IF in_list(codec_name_of(stream), unsupported_codec) THEN "unsupported"
    ELSE IF is_forced_of(stream) /\ ~a.get_forced THEN "forced"
    ELSE IF /\ language_of(stream) # "unset"
            /\ ~in_list(language_of(stream), str_split(a.language, ","))
         THEN "language"
    ELSE IF contains(lower(title_of(stream)), "sdh") /\ ~a.get_sdh THEN "sdh"
    ELSE "extract"

\* variant: the container-wide index of the stream
IndexSubtitle_container(streams, i) == streams[i].index

\* index_subtitle of the i-th examined stream: starts at -1, incremented
\* at the top of every iteration
IndexSubtitle(streams, i) == i - 1

\* the loop over the subtitle streams, from the i-th one on
RECURSIVE ExamineStreams(_, _, _)
ExamineStreams(a, streams, i) ==
    IF i > Len(streams) THEN <<>>
    ELSE (IF Examine(a, streams[i]) = "extract"
          THEN <<[index_subtitle |-> IndexSubtitle(streams, i),
                  language |-> language_of(streams[i]),
                  is_forced |-> is_forced_of(streams[i])]>>
          ELSE <<>>)
         \o ExamineStreams(a, streams, i + 1)

\* the '! Ignore ...' diagnostics of the loop
IgnoreMessages(a, streams) ==
    IF a.verbose = 0 THEN {}
    ELSE {[msg |-> "ignore", reason |-> Examine(a, streams[i]), subtitle |-> i - 1] :
            i \in {j \in 1..Len(streams) :
                     Examine(a, streams[j]) \notin {"scan_only", "extract"}}}

(***************************************************************************)
(* Naming policy (lines 163-168).                                          *)
(***************************************************************************)
\* variant: the long form whatever the number of decisions
FinalName_always_long(path, count, d) ==
    LET foutname == splitext(path)[1]
    IN  foutname \o "." \o d.language \o "." \o ToString(d.index_subtitle)
          \o (IF d.is_forced THEN ".forced" ELSE "") \o ".srt"

\* variant: the long form without the ordinal
FinalName_no_ordinal(path, count, d) ==
    LET foutname == splitext(path)[1]
    IN  IF count = 1
        THEN foutname \o ".srt"
        ELSE foutname \o "." \o d.language
               \o (IF d.is_forced THEN ".forced" ELSE "") \o ".srt"

FinalName(path, count, d) ==
    LET foutname == splitext(path)[1]
    IN  IF count = 1
        THEN foutname \o ".srt"
        ELSE foutname \o "." \o d.language \o "." \o ToString(d.index_subtitle)
               \o (IF d.is_forced THEN ".forced" ELSE "") \o ".srt"

\* -map selector of ffsubextract (line 61)
Selector(subtitle_index) == "0:s:" \o ToString(subtitle_index)

(***************************************************************************)
(* State.                                                                  *)
(***************************************************************************)
VARIABLES
    args,               \* the parsed command line, the same in every run
    media,              \* movie path -> the "streams" array ffprobe reports for it
    fs,                 \* the subtitle files on disk, with where they came from
    run,                \* number of the current run of the tool
    fidx,               \* position in args.filelist of the next candidate file
    pc,                 \* "walk": between files, "extract": in the extraction
                        \* loop of file_path, "exit": the run has ended
    file_path,          \* argument of the last get_ffmpeg_track_id call
    streams_to_extract, \* decisions of the last successful probe
    k,                  \* position in streams_to_extract of the next decision
    printed,            \* what the last step printed
    call,               \* what the last step did
    exit_status,        \* exit status of the run once it has ended
    processed,          \* positions of the files process_movie got in this run
    probe_failed,       \* positions of the files whose probe failed in this run
    extract_failed,     \* <<file position, decision position>> of the
                        \* extractions that returned non-zero in this run
    attempted           \* <<file position, decision position>> of the decisions
                        \* the extraction loop reached in this run

vars == <<args, media, fs, run, fidx, pc, file_path, streams_to_extract, k,
          printed, call, exit_status, processed, probe_failed, extract_failed,
          attempted>>

NoStatus == 0 - 1

\* os.path.exists(name)
Exists(files, name) == \E f \in files : f.path = name

\* a subtitle file that was on disk before the first run
OldFile(name) == [path |-> name, source |-> "", selector |-> ""]

InitWith(argset, mediaset, fsset) ==
    /\ args \in argset
    /\ media \in mediaset
    /\ fs \in fsset
    /\ run = 1
    /\ fidx = 1
    /\ pc = "walk"
    /\ file_path = ""
    /\ streams_to_extract = <<>>
    /\ k = 0
    /\ printed = {}
    /\ call = [op |-> "start"]
    /\ exit_status = NoStatus
    /\ processed = {}
    /\ probe_failed = {}
    /\ extract_failed = {}
    /\ attempted = {}

\* successive runs over several files, one of them with varying streams
Init ==
    InitWith(ArgSets(RunFiles, {DefaultLanguage}),
             {[p \in Movies(RunFiles) |->
                 IF p = "movie.mkv" THEN arr ELSE EpisodeStreams] :
                arr \in StreamArrays(SmallPool)},
             {{}})
\* one run over one movie, every kind of stream, every option
InitOne ==
    InitWith(ArgSets(OneFile, LanguageOptions),
             [Movies(OneFile) -> StreamArrays(StreamPool)],
             {{}, {OldFile("movie.srt")}})

(***************************************************************************)
(* The external processes.                                                 *)
(***************************************************************************)
\* ffprobe(): outcome "ok" is exit status 0 with the JSON document on
\* stdout; check=True turns a non-zero exit into CalledProcessError, which
\* is caught like UnicodeDecodeError
ffprobe(outcome, path) ==
    IF outcome = "ok"
    THEN [return_code |-> 0, json |-> ProbeJson(media[path]), error |-> ""]
    ELSE [return_code |-> ProbeErrorCode, json |-> "", error |-> outcome]

ProbeFailures == {"exit_nonzero", "decode_error"}
\* errno of the OSError raised when a process cannot be launched
LaunchErrnos == {2, 22}

\* what one ffmpeg -n run can do: exit status and whether fileout_path was
\* written; an existing fileout_path is never written
FfmpegOutcomes(exists) ==
    IF exists
    THEN {[returncode |-> 1, written |-> FALSE, stderr |-> "already exists", decoded |-> TRUE]}
    ELSE {[returncode |-> 0, written |-> TRUE, stderr |-> "", decoded |-> TRUE],
          [returncode |-> 1, written |-> FALSE, stderr |-> "failed", decoded |-> TRUE],
          [returncode |-> 1, written |-> TRUE, stderr |-> "failed", decoded |-> TRUE],
          [returncode |-> 0, written |-> TRUE, stderr |-> "", decoded |-> FALSE]}

\* ffsubextract(): (code, text) for an outcome of the ffmpeg process
ffsubextract(o) ==
    IF o.decoded
    THEN <<o.returncode, o.stderr>>
    ELSE <<ExtractDecodeErrorCode, "UnicodeDecodeError">>

\* the uncaught OSError reaches the guard around main (lines 240-244)
MainGuardStatus(errno) == IF errno \in SwallowedErrnos THEN 0 ELSE 1

(***************************************************************************)
(* Steps of a run.                                                         *)
(***************************************************************************)
AtFile == pc = "walk" /\ fidx <= Len(args.filelist)

\* process_movie returns at once for an extension that is not supported
SkipFile ==
    /\ AtFile
    /\ MoviePath(args.filelist[fidx]) = ""
    /\ fidx' = fidx + 1
    /\ processed' = processed \cup {fidx}
    /\ printed' = {}
    /\ call' = [op |-> "skip_file", name |-> args.filelist[fidx]]
    /\ UNCHANGED <<args, media, fs, run, pc, file_path, streams_to_extract, k,
                   exit_status, probe_failed, extract_failed, attempted>>

\* the probe fails with an error ffprobe() catches (lines 46-47, 94-97)
ProbeFailed ==
    /\ AtFile
    /\ MoviePath(args.filelist[fidx]) # ""
    /\ \E outcome \in ProbeFailures :
         LET path == MoviePath(args.filelist[fidx])
             ffprobe_result == ffprobe(outcome, path)
         IN  /\ ffprobe_result.return_code # 0
             /\ file_path' = path
             /\ printed' = {[msg |-> "error_probe", file |-> path,
                             error |-> ffprobe_result.error]}
             /\ call' = [op |-> "ffprobe", file_path |-> path, outcome |-> outcome,
                         returned |-> TRUE,
                         return_code |-> ffprobe_result.return_code,
                         json_empty |-> (ffprobe_result.json = ""),
                         parsed |-> FALSE]
    /\ fidx' = fidx + 1
    /\ processed' = processed \cup {fidx}
    /\ probe_failed' = probe_failed \cup {fidx}
    /\ streams_to_extract' = <<>>
    /\ k' = 0
    /\ UNCHANGED <<args, media, fs, run, pc, exit_status, extract_failed, attempted>>

\* the probe process cannot be launched: subprocess.run raises OSError, which
\* ffprobe() does not catch; the run ends in the guard around main
ProbeRaised ==
    /\ AtFile
    /\ MoviePath(args.filelist[fidx]) # ""
    /\ \E errno \in LaunchErrnos :
         /\ exit_status' = MainGuardStatus(errno)
         /\ call' = [op |-> "ffprobe", file_path |-> MoviePath(args.filelist[fidx]),
                     outcome |-> "launch_failed", returned |-> FALSE,
                     errno |-> errno, parsed |-> FALSE]
         /\ printed' = IF errno \in SwallowedErrnos THEN {}
                       ELSE {[msg |-> "traceback", errno |-> errno]}
    /\ file_path' = MoviePath(args.filelist[fidx])
    /\ pc' = "exit"
    /\ processed' = processed \cup {fidx}
    /\ probe_failed' = probe_failed \cup {fidx}
    /\ streams_to_extract' = <<>>
    /\ k' = 0
    /\ UNCHANGED <<args, media, fs, run, fidx, extract_failed, attempted>>

\* the probe succeeds: parse, keep the subtitle streams, examine them
\* (lines 93-159)
ProbeOk ==
    /\ AtFile
    /\ MoviePath(args.filelist[fidx]) # ""
    /\ LET path == MoviePath(args.filelist[fidx])
           ffprobe_result == ffprobe("ok", path)
           ffprobe_json == ffprobe_result.json
           streams == SubtitleStreams(ffprobe_json)
           early == streams = <<>> /\ args.verbose > 1
           todo == IF early THEN <<>> ELSE ExamineStreams(args, streams, 1)
       IN  /\ ffprobe_result.return_code = 0
           /\ file_path' = path
           /\ streams_to_extract' = todo
           /\ printed' =
                IF early THEN {[msg |-> "no_subtitles", file |-> path]}
                ELSE IF streams = <<>> THEN {}
                ELSE {[msg |-> "process", file |-> path, count |-> Len(streams)]}
                       \cup IgnoreMessages(args, streams)
           /\ call' = [op |-> "ffprobe", file_path |-> path, outcome |-> "ok",
                       returned |-> TRUE, return_code |-> 0,
                       json_empty |-> FALSE, parsed |-> TRUE]
           /\ IF todo = <<>>
              THEN pc' = "walk" /\ fidx' = fidx + 1 /\ k' = 0
              ELSE pc' = "extract" /\ fidx' = fidx /\ k' = 1
    /\ processed' = processed \cup {fidx}
    /\ UNCHANGED <<args, media, fs, run, exit_status, probe_failed,
                   extract_failed, attempted>>

InLoop == pc = "extract" /\ k \in 1..Len(streams_to_extract)

CurrentName ==
    FinalName(file_path, Len(streams_to_extract), streams_to_extract[k])

\* end of one iteration of the extraction loop (line 162)
NextDecision ==
    IF k < Len(streams_to_extract)
    THEN pc' = "extract" /\ k' = k + 1 /\ fidx' = fidx
    ELSE pc' = "walk" /\ k' = 0 /\ fidx' = fidx + 1

FilenameMessage(final_name) ==
    IF args.verbose > 1 THEN {[msg |-> "filename", name |-> final_name]} ELSE {}

\* variant: the destination is not looked for
MustSkip_never(final_name) == FALSE

\* never rewrite subtitles (lines 172-175)
MustSkip(final_name) == Exists(fs, final_name)

AlreadyExists ==
    /\ InLoop
    /\ MustSkip(CurrentName)
    /\ printed' = FilenameMessage(CurrentName) \cup
                  (IF args.verbose # 0
                   THEN {[msg |-> "exists", name |-> CurrentName]}
                   ELSE {})
    /\ call' = [op |-> "exists", fileout_path |-> CurrentName]
    /\ attempted' = attempted \cup {<<fidx, k>>}
    /\ NextDecision
    /\ UNCHANGED <<args, media, fs, run, file_path, streams_to_extract,
                   exit_status, processed, probe_failed, extract_failed>>

\* ffsubextract returns (lines 176-180)
Extract ==
    /\ InLoop
    /\ ~MustSkip(CurrentName)
    /\ \E o \in FfmpegOutcomes(Exists(fs, CurrentName)) :
         LET index_subtitle == streams_to_extract[k].index_subtitle
             res == ffsubextract(o)
             code == res[1]
             result == res[2]
         IN  /\ fs' = IF o.written
                      THEN fs \cup {[path |-> CurrentName, source |-> file_path,
                                     selector |-> Selector(index_subtitle)]}
                      ELSE fs
             /\ printed' = FilenameMessage(CurrentName) \cup
                           (IF code # 0
                            THEN {[msg |-> "error", code |-> code, text |-> result]}
                            ELSE {[msg |-> "done", name |-> CurrentName]})
             /\ call' = [op |-> "ffmpeg", file_path |-> file_path,
                         selector |-> Selector(index_subtitle),
                         fileout_path |-> CurrentName, code |-> code]
             /\ extract_failed' = IF code # 0
                                  THEN extract_failed \cup {<<fidx, k>>}
                                  ELSE extract_failed
    /\ attempted' = attempted \cup {<<fidx, k>>}
    /\ NextDecision
    /\ UNCHANGED <<args, media, run, file_path, streams_to_extract,
                   exit_status, processed, probe_failed>>

\* the ffmpeg process cannot be launched: OSError is not caught by
\* ffsubextract() either
ExtractRaised ==
    /\ InLoop
    /\ ~MustSkip(CurrentName)
    /\ \E errno \in LaunchErrnos :
         /\ exit_status' = MainGuardStatus(errno)
         /\ call' = [op |-> "ffmpeg_raised", file_path |-> file_path,
                     selector |-> Selector(streams_to_extract[k].index_subtitle),
                     fileout_path |-> CurrentName, errno |-> errno]
         /\ printed' = FilenameMessage(CurrentName) \cup
                       (IF errno \in SwallowedErrnos THEN {}
                        ELSE {[msg |-> "traceback", errno |-> errno]})
    /\ pc' = "exit"
    /\ attempted' = attempted \cup {<<fidx, k>>}
    /\ UNCHANGED <<args, media, fs, run, fidx, file_path, streams_to_extract, k,
                   processed, probe_failed, extract_failed>>

\* process() has gone through the whole file list; main returns
Finish ==
    /\ pc = "walk"
    /\ fidx > Len(args.filelist)
    /\ pc' = "exit"
    /\ exit_status' = 0
    /\ printed' = {}
    /\ call' = [op |-> "return"]
    /\ UNCHANGED <<args, media, fs, run, fidx, file_path, streams_to_extract, k,
                   processed, probe_failed, extract_failed, attempted>>

\* the tool is run again on the same files with the same options
StartRun ==
    /\ pc = "exit"
    /\ run < MaxRuns
    /\ run' = run + 1
    /\ pc' = "walk"
    /\ fidx' = 1
    /\ file_path' = ""
    /\ streams_to_extract' = <<>>
    /\ k' = 0
    /\ printed' = {}
    /\ call' = [op |-> "start"]
    /\ exit_status' = NoStatus
    /\ processed' = {}
    /\ probe_failed' = {}
    /\ extract_failed' = {}
    /\ attempted' = {}
    /\ UNCHANGED <<args, media, fs>>

\* one run of the tool
Run ==
    \/ SkipFile
    \/ ProbeFailed
    \/ ProbeRaised
    \/ ProbeOk
    \/ AlreadyExists
    \/ Extract
    \/ ExtractRaised
    \/ Finish

Next ==
    \/ Run
    \/ StartRun

Spec == Init /\ [][Next]_vars
SpecOne == InitOne /\ [][Run]_vars

TypeOK ==
    /\ run \in 1..MaxRuns
    /\ pc \in {"walk", "extract", "exit"}
    /\ fidx \in 1..(Len(args.filelist) + 1)
    /\ k \in 0..Len(streams_to_extract)
    /\ (pc = "exit") = (exit_status # NoStatus)
    /\ pc = "extract" => InLoop

(***************************************************************************)
(* Properties.                                                             *)
(***************************************************************************)
\* streams_to_extract holds the decisions of file_path
Decided ==
    \/ call.op \in {"exists", "ffmpeg", "ffmpeg_raised"}
    \/ (call.op = "ffprobe" /\ call.parsed)

\* the last step reached the naming of a decision
Named == call.op \in {"exists", "ffmpeg", "ffmpeg_raised"}

CurJson == ProbeJson(media[file_path])
CurStreams == SubtitleStreams(CurJson)

\* the scenario of C1: two subtitle streams, "fra" then "eng", both subrip,
\* not forced and without title, --language fra, extraction requested
C1_Scenario ==
    /\ Decided
    /\ file_path = "movie.mkv"
    /\ args.language = "fra"
    /\ ~args.scan_only
    /\ Len(CurStreams) = 2
    /\ \A i \in 1..2 :
         /\ codec_name_of(CurStreams[i]) = "subrip"
         /\ ~is_forced_of(CurStreams[i])
         /\ title_of(CurStreams[i]) = "unset"
    /\ language_of(CurStreams[1]) = "fra"
    /\ language_of(CurStreams[2]) = "eng"

C1_OneDecision ==
    streams_to_extract =
        <<[index_subtitle |-> 0, language |-> "fra", is_forced |-> FALSE]>>

\* C1 as claimed: in the scenario there is exactly one decision (ordinal 0,
\* "fra") and its output path is movie.fra.0.srt
C1_Original ==
    C1_Scenario =>
        /\ C1_OneDecision
        /\ Named => call.fileout_path = "movie.fra.0.srt"

\* C1 amended: in the scenario there is exactly one decision (ordinal 0,
\* "fra") and its output path is movie.srt
C1_Amended ==
    C1_Scenario =>
        /\ C1_OneDecision
        /\ Named => call.fileout_path = "movie.srt"

C1_Witness ==
    /\ C1_Scenario
    /\ call.op = "ffmpeg"
    /\ call.fileout_path = "movie.srt"

C3_DistinctNames ==
    (Decided /\ Len(streams_to_extract) >= 2) =>
        LET names == [i \in 1..Len(streams_to_extract) |->
                        FinalName(file_path, Len(streams_to_extract),
                                  streams_to_extract[i])]
        IN  \A i, j \in 1..Len(streams_to_extract) : i < j => names[i] # names[j]

C3_Witness ==
    /\ call.op = "ffmpeg"
    /\ Len(streams_to_extract) = 2
    /\ k = 0
    /\ streams_to_extract[1].language = streams_to_extract[2].language
    /\ streams_to_extract[1].is_forced = streams_to_extract[2].is_forced
    /\ Cardinality({f \in fs : f.source = file_path}) = 2

\* C7: with --scan-only no stream becomes a decision and ffmpeg is never
\* run
C7_ScanOnly ==
    args.scan_only =>
        /\ streams_to_extract = <<>>
        /\ pc # "extract"
        /\ call.op \notin {"exists", "ffmpeg", "ffmpeg_raised"}
        /\ \A f \in fs : f.source = ""

C7_Witness ==
    /\ args.scan_only
    /\ call.op = "ffprobe"
    /\ call.parsed
    /\ \E i \in 1..Len(CurStreams) :
         Examine([args EXCEPT !.scan_only = FALSE], CurStreams[i]) = "extract"

\* C8: a stream with an unsupported codec is in no decision and is never
\* handed to ffmpeg
C8_Unsupported ==
    Decided =>
        /\ \A i \in 1..Len(streams_to_extract) :
             LET d == streams_to_extract[i]
             IN  /\ d.index_subtitle + 1 \in 1..Len(CurStreams)
                 /\ codec_name_of(CurStreams[d.index_subtitle + 1])
                      \notin {"hdmv_pgs_subtitle", "dvd_subtitle"}
        /\ call.op \in {"ffmpeg", "ffmpeg_raised"} =>
             \A i \in 1..Len(CurStreams) :
                 codec_name_of(CurStreams[i]) \in {"hdmv_pgs_subtitle", "dvd_subtitle"}
                     => call.selector # Selector(i - 1)

C8_Witness ==
    /\ call.op = "ffmpeg"
    /\ ~args.scan_only
    /\ \E i \in 1..Len(CurStreams) :
         /\ codec_name_of(CurStreams[i]) = "hdmv_pgs_subtitle"
         /\ ~is_forced_of(CurStreams[i])
         /\ language_of(CurStreams[i]) = "fra"
         /\ title_of(CurStreams[i]) = "unset"

\* the conditions of C9, stated on one stream
WantedLanguages ==
    {str_split(args.language, ",")[i] : i \in 1..Len(str_split(args.language, ","))}

ContainsNoCase(text, word) ==
    \E i \in 1..(Len(text) - Len(word) + 1) :
        lower(SubSeq(text, i, i + Len(word) - 1)) = word

IsForcedStated(stream) ==
    \/ ("disposition" \in DOMAIN stream
          /\ "forced" \in DOMAIN stream.disposition
          /\ stream.disposition.forced = 1)
    \/ ContainsNoCase(title_of(stream), "forc")

Qualifies(stream) ==
    /\ codec_name_of(stream) \notin {"hdmv_pgs_subtitle", "dvd_subtitle"}
    /\ ~(IsForcedStated(stream) /\ ~args.get_forced)
    /\ (language_of(stream) = "unset" \/ language_of(stream) \in WantedLanguages)
    /\ ~(ContainsNoCase(title_of(stream), "sdh") /\ ~args.get_sdh)

\* C9: without --scan-only the decisions are exactly the subtitle streams
\* that qualify, in probe order, each with its language and forced flag
C9_DecisionSet ==
    (Decided /\ ~args.scan_only) =>
        /\ {streams_to_extract[i].index_subtitle : i \in 1..Len(streams_to_extract)}
             = {i - 1 : i \in {j \in 1..Len(CurStreams) : Qualifies(CurStreams[j])}}
        /\ \A i, j \in 1..Len(streams_to_extract) :
             i < j => streams_to_extract[i].index_subtitle
                        < streams_to_extract[j].index_subtitle
        /\ \A i \in 1..Len(streams_to_extract) :
             LET d == streams_to_extract[i]
                 stream == CurStreams[d.index_subtitle + 1]
             IN  /\ d.language = language_of(stream)
                 /\ d.is_forced = IsForcedStated(stream)

C9_Witness ==
    /\ Decided
    /\ ~args.scan_only
    /\ Len(CurStreams) = 2
    /\ Len(streams_to_extract) = 1
    /\ streams_to_extract[1].language = "unset"
    /\ streams_to_extract[1].index_subtitle = 1
    /\ streams_to_extract[1].is_forced
    /\ language_of(CurStreams[1]) = "eng"

\* number of subtitle-typed streams before position j of the probed array
SubtitlesBefore(j) ==
    Cardinality({i \in 1..(j - 1) :
                   Get(CurJson.streams[i], "codec_type", "unknown") = "subtitle"})

\* positions in the probed array of the streams that qualify
QualifyingPositions ==
    {j \in 1..Len(CurJson.streams) :
       /\ Get(CurJson.streams[j], "codec_type", "unknown") = "subtitle"
       /\ Examine(args, CurJson.streams[j]) = "extract"}

\* position in streams_to_extract of the decision the last step handled
LastDecision ==
    IF call.op = "ffmpeg_raised" THEN k
    ELSE IF pc = "extract" THEN k - 1
    ELSE Len(streams_to_extract)

\* C10: the ordinal of a decision, and of the selector given to ffmpeg, is
\* the number of subtitle-typed streams before its stream in the probe
\* result, whatever the container-wide index
C10_Ordinal ==
    Decided =>
        LET positions == QualifyingPositions
        IN  /\ Len(streams_to_extract) = Cardinality(positions)
            /\ \A j \in positions :
                 streams_to_extract[Cardinality({i \in positions : i <= j})].index_subtitle
                   = SubtitlesBefore(j)
            /\ call.op \in {"ffmpeg", "ffmpeg_raised"} =>
                 call.selector =
                   "0:s:" \o ToString(streams_to_extract[LastDecision].index_subtitle)

C10_Witness ==
    /\ call.op = "ffmpeg"
    /\ call.selector = "0:s:0"
    /\ Len(CurJson.streams) = 2
    /\ CurJson.streams[1].codec_type = "video"
    /\ CurJson.streams[2].index = 1

\* the message of line 174
ExistsMessage(name) == [msg |-> "exists", name |-> name]

\* ffmpeg is only run for a destination that does not exist, a file on
\* disk is never changed, and there is one file per path
NeverRewritten ==
    /\ call'.op = "ffmpeg" => ~Exists(fs, call'.fileout_path)
    /\ fs \subseteq fs'
    /\ \A f, g \in fs' : f.path = g.path => f = g

\* C4 as claimed: ffmpeg never runs for an existing destination, and a
\* decision whose destination exists is skipped, reported as "already
\* exists" and its file left unchanged, in every run
C4_Original ==
    [][/\ NeverRewritten
       /\ (InLoop /\ Exists(fs, CurrentName)) =>
            /\ call'.op = "exists"
            /\ fs' = fs
            /\ ExistsMessage(CurrentName) \in printed']_vars

\* C4 amended: as claimed, but "already exists" is reported exactly when
\* the verbosity is not 0
C4_Amended ==
    [][/\ NeverRewritten
       /\ (InLoop /\ Exists(fs, CurrentName)) =>
            /\ call'.op = "exists"
            /\ fs' = fs
            /\ (ExistsMessage(CurrentName) \in printed') = (args.verbose # 0)]_vars

C4_Witness ==
    /\ run = 2
    /\ call.op = "exists"
    /\ \E f \in fs : f.path = call.fileout_path /\ f.source = file_path
    /\ args.verbose = 1
    /\ printed = {ExistsMessage(call.fileout_path)}

\* C5 as claimed: every failure of the probe gives a result with a non-zero
\* status and empty JSON, nothing is parsed or decided, a diagnostic is
\* printed, and the run goes on to every remaining candidate file
C5_ProbeFailureNotFatal ==
    /\ (call.op = "ffprobe" /\ call.outcome # "ok") =>
         /\ call.returned
         /\ call.return_code # 0
         /\ call.json_empty
         /\ ~call.parsed
         /\ streams_to_extract = <<>>
         /\ \E m \in printed : m.msg = "error_probe"
         /\ pc = "walk"
    /\ pc = "exit" =>
         \A i \in probe_failed :
             \A j \in (i + 1)..Len(args.filelist) : j \in processed

\* number of decisions of the file at position f of the file list
NumDecisions(f) ==
    LET path == MoviePath(args.filelist[f])
    IN  IF path = "" THEN 0
        ELSE Len(ExamineStreams(args, SubtitleStreams(ProbeJson(media[path])), 1))

\* C6 as claimed: a non-zero status of the extractor is reported with its
\* code and text, and the run still goes through the remaining decisions
\* of the file and the remaining files and ends with exit status 0
C6_ExtractFailureNotFatal ==
    /\ (call.op = "ffmpeg" /\ call.code # 0) =>
         \E m \in printed : m.msg = "error" /\ m.code = call.code
    /\ (pc = "exit" /\ extract_failed # {}) =>
         /\ exit_status = 0
         /\ \A e \in extract_failed :
              /\ \A k2 \in (e[2] + 1)..NumDecisions(e[1]) : <<e[1], k2>> \in attempted
              /\ \A j \in (e[1] + 1)..Len(args.filelist) : j \in processed
====
